---- MODULE Spec2Model ----
(***************************************************************************)
(* The recommendation engine of backend_python/main.py.                    *)
(*                                                                         *)
(* A request to /suggest-plots carries a list of column profiles and the   *)
(* has_time_series flag; suggest_plots answers it with the list that       *)
(* recommend_charts_from_data builds from them.                            *)
(*                                                                         *)
(* Conventions of the translation:                                         *)
(*   - a score is kept in hundredths (0.98 is 98), so that the order of    *)
(*     the scores is the order of the integers;                            *)
(*   - Python's None is the string None, Python lists are sequences and    *)
(*     the index i of the code is the index i+1 here;                      *)
(*   - a recommendation keeps its type, score, reason, priority and        *)
(*     variables; title, description and use_case are literals fixed by    *)
(*     the type and are left out;                                          *)
(*   - a reason is the sequence <<template, argument, ...>> of the         *)
(*     f-string that builds it.                                            *)
(***************************************************************************)
EXTENDS Integers, Sequences, FiniteSets, TLC

VARIABLES data, response, pc, file, profiles, analysis

vars == <<data, response, pc, file, profiles, analysis>>

\* The state of the /suggest-plots side and of the /upload-data side.
requestVars == <<data, response>>

uploadVars == <<file, profiles, analysis>>

(***************************************************************************)
(* Bounds of the model.  A request has at most MaxCols columns of any      *)
(* types, or at most MaxNumericOnly columns when all of them are numeric   *)
(* (wide enough for the caps of 3, 6, 8 and 10 columns to cut).            *)
(***************************************************************************)
MaxCols == 5

MaxNumericOnly == 11

None == "None"

ColumnTypes == {"numeric", "categorical", "date", "boolean"}

(***************************************************************************)
(* The names a column at each position of the request may have.  Names are *)
(* unique in a request.                                                    *)
(***************************************************************************)
ColumnNames ==
    << {"id", "Rating"}, {"open"}, {"high", "Test_Score"}, {"low"}, {"close"},
       {"volume"}, {"m7"}, {"m8"}, {"m9"}, {"m10"}, {"m11"}, {"m12"},
       {"m13"}, {"m14"} >>

(***************************************************************************)
(* str.lower() and the substring test `kw in name.lower()', on names cut   *)
(* into the pieces that the keywords can match.                            *)
(***************************************************************************)
NameParts(name) ==
    CASE name = "Test_Score" -> <<"Test", "_", "Score">>
      [] name = "order_date" -> <<"order", "_", "date">>
      [] name = "Sales_Year" -> <<"Sales", "_", "Year">>
      [] OTHER -> <<name>>

lower(piece) ==
    CASE piece = "Test" -> "test"
      [] piece = "Rating" -> "rating"
      [] piece = "Score" -> "score"
      [] piece = "Region" -> "region"
      [] piece = "Sales" -> "sales"
      [] piece = "Year" -> "year"
      [] OTHER -> piece

Contains(keyword, name) ==
    \E i \in DOMAIN NameParts(name) : lower(NameParts(name)[i]) = keyword

(***************************************************************************)
(* List helpers: xs[:n], and `xs[i] if len(xs) > i else default'.          *)
(***************************************************************************)
Min(a, b) == IF a <= b THEN a ELSE b

Take(xs, n) == SubSeq(xs, 1, Min(n, Len(xs)))

AtOr(xs, i, default) == IF Len(xs) >= i THEN xs[i] ELSE default

get_col_names(cols) == [i \in 1..Len(cols) |-> cols[i].name]

ChartRecommendation(type, score, reason, priority, variables) ==
    [type |-> type, score |-> score, reason |-> reason,
     priority |-> priority, variables |-> variables]

\* main.py 119-129: the answer to a request without columns.
ErrorRecommendation ==
    ChartRecommendation("error", 0, <<"error">>, "error", <<>>)

\* main.py 138-169
DistributionCharts(numeric_names, categorical_names) ==
    IF Len(numeric_names) >= 1
    THEN << ChartRecommendation("box", 90, <<"box">>, "best",
                [y_axis |-> AtOr(numeric_names, 1, None),
                 group_by |-> AtOr(categorical_names, 1, None),
                 numeric_options |-> numeric_names,
                 group_options |-> categorical_names]),
            ChartRecommendation("violin", 85, <<"violin">>, "good",
                [y_axis |-> AtOr(numeric_names, 1, None),
                 options |-> numeric_names]) >>
    ELSE <<>>

\* The time series rule guarded by the flag alone, the date columns forgotten.
TimeSeriesCharts_FlagOnly(numeric_names, categorical_names, date_names, has_time_series) ==
    IF has_time_series
    THEN LET date_col == AtOr(date_names, 1, None)
         IN << ChartRecommendation("line", 98, <<"line", date_col>>, "best",
                   [x_axis |-> date_col,
                    y_axis |-> AtOr(numeric_names, 1, None),
                    y_options |-> numeric_names]),
               ChartRecommendation("area", 92, <<"area">>, "best",
                   [x_axis |-> date_col,
                    y_axis |-> AtOr(numeric_names, 1, None),
                    y_options |-> numeric_names]),
               ChartRecommendation("multi-line", 88, <<"multi-line">>, "good",
                   [x_axis |-> date_col,
                    y_axes |-> Take(numeric_names, 3),
                    group_by |-> AtOr(categorical_names, 1, None),
                    y_options |-> numeric_names,
                    group_options |-> categorical_names]) >>
    ELSE <<>>

\* main.py 171-219
TimeSeriesCharts(numeric_names, categorical_names, date_names, has_time_series) ==
    IF has_time_series \/ Len(date_names) > 0
    THEN LET date_col == AtOr(date_names, 1, None)
         IN << ChartRecommendation("line", 98, <<"line", date_col>>, "best",
                   [x_axis |-> date_col,
                    y_axis |-> AtOr(numeric_names, 1, None),
                    y_options |-> numeric_names]),
               ChartRecommendation("area", 92, <<"area">>, "best",
                   [x_axis |-> date_col,
                    y_axis |-> AtOr(numeric_names, 1, None),
                    y_options |-> numeric_names]),
               ChartRecommendation("multi-line", 88, <<"multi-line">>, "good",
                   [x_axis |-> date_col,
                    y_axes |-> Take(numeric_names, 3),
                    group_by |-> AtOr(categorical_names, 1, None),
                    y_options |-> numeric_names,
                    group_options |-> categorical_names]) >>
    ELSE <<>>

\* Scatter with y_axis bound to the last numeric column instead of the second.
Scatter_LastY(numeric_names, categorical_names) ==
    ChartRecommendation("scatter", 95,
        <<"scatter", numeric_names[1], numeric_names[2]>>, "best",
        [x_axis |-> numeric_names[1],
         y_axis |-> numeric_names[Len(numeric_names)],
         color_by |-> AtOr(categorical_names, 1, None),
         x_options |-> numeric_names,
         y_options |-> numeric_names,
         color_options |-> categorical_names])

\* main.py 224-241
Scatter(numeric_names, categorical_names) ==
    ChartRecommendation("scatter", 95,
        <<"scatter", numeric_names[1], numeric_names[2]>>, "best",
        [x_axis |-> numeric_names[1],
         y_axis |-> numeric_names[2],
         color_by |-> AtOr(categorical_names, 1, None),
         x_options |-> numeric_names,
         y_options |-> numeric_names,
         color_options |-> categorical_names])

\* main.py 243-262
Bubble(numeric_names, categorical_names) ==
    ChartRecommendation("bubble", 85,
        <<"bubble", numeric_names[1], numeric_names[2], numeric_names[3]>>, "good",
        [x_axis |-> numeric_names[1],
         y_axis |-> numeric_names[2],
         size |-> numeric_names[3],
         color_by |-> AtOr(categorical_names, 1, None),
         x_options |-> numeric_names,
         y_options |-> numeric_names,
         size_options |-> numeric_names,
         color_options |-> categorical_names])

\* Heatmap with the cap of 10 columns applied to the option list as well.
Heatmap_CappedOptions(numeric_names) ==
    ChartRecommendation("heatmap", 88, <<"heatmap">>, "good",
        [columns |-> Take(numeric_names, 10),
         all_options |-> Take(numeric_names, 10)])

\* main.py 264-276
Heatmap(numeric_names) ==
    ChartRecommendation("heatmap", 88, <<"heatmap">>, "good",
        [columns |-> Take(numeric_names, 10),
         all_options |-> numeric_names])

\* main.py 221-276
CorrelationCharts(numeric_names, categorical_names) ==
    IF Len(numeric_names) >= 2
    THEN << Scatter(numeric_names, categorical_names) >>
         \o (IF Len(numeric_names) >= 3
             THEN << Bubble(numeric_names, categorical_names) >>
             ELSE <<>>)
         \o << Heatmap(numeric_names) >>
    ELSE <<>>

\* main.py 282-296
Bar(numeric_names, categorical_names) ==
    LET cat_col == categorical_names[1]
    IN ChartRecommendation("bar", 95, <<"bar", cat_col>>, "best",
           [x_axis |-> cat_col,
            y_axis |-> AtOr(numeric_names, 1, "count"),
            x_options |-> categorical_names,
            y_options |-> <<"count">> \o numeric_names])

\* main.py 278-342
CategoricalCharts(numeric_names, categorical_names) ==
    IF Len(categorical_names) >= 1
    THEN LET cat_col == categorical_names[1]
         IN << Bar(numeric_names, categorical_names),
               ChartRecommendation("horizontal-bar", 90, <<"horizontal-bar">>, "good",
                   [y_axis |-> cat_col,
                    x_axis |-> AtOr(numeric_names, 1, "count"),
                    y_options |-> categorical_names,
                    x_options |-> <<"count">> \o numeric_names]),
               ChartRecommendation("pie", 82, <<"pie", cat_col>>, "good",
                   [category |-> cat_col,
                    value |-> AtOr(numeric_names, 1, "count"),
                    category_options |-> categorical_names,
                    value_options |-> <<"count">> \o numeric_names]),
               ChartRecommendation("donut", 80, <<"donut">>, "alternative",
                   [category |-> cat_col,
                    value |-> AtOr(numeric_names, 1, "count"),
                    category_options |-> categorical_names,
                    value_options |-> <<"count">> \o numeric_names]) >>
    ELSE <<>>

\* main.py 344-399
CategoricalNumericCharts(numeric_names, categorical_names) ==
    IF Len(categorical_names) >= 1 /\ Len(numeric_names) >= 1
    THEN LET cat_col == categorical_names[1]
             subcat_col == IF Len(categorical_names) >= 2
                           THEN categorical_names[2] ELSE None
         IN << ChartRecommendation("grouped-bar", 92, <<"grouped-bar", cat_col>>, "best",
                   [x_axis |-> cat_col,
                    y_axis |-> numeric_names[1],
                    group_by |-> subcat_col,
                    x_options |-> categorical_names,
                    y_options |-> numeric_names,
                    group_options |-> categorical_names]),
               ChartRecommendation("stacked-bar", 88, <<"stacked-bar">>, "good",
                   [x_axis |-> cat_col,
                    y_axis |-> numeric_names[1],
                    stack_by |-> subcat_col,
                    x_options |-> categorical_names,
                    y_options |-> numeric_names,
                    stack_options |-> categorical_names]),
               ChartRecommendation("boxplot-grouped", 85, <<"boxplot-grouped", cat_col>>, "good",
                   [x_axis |-> cat_col,
                    y_axis |-> numeric_names[1],
                    x_options |-> categorical_names,
                    y_options |-> numeric_names]) >>
    ELSE <<>>

\* main.py 403
score_cols(numeric_names) ==
    SelectSeq(numeric_names,
              LAMBDA c : Contains("score", c) \/ Contains("rating", c))

\* main.py 401-436
AdvancedCharts(numeric_names, categorical_names) ==
    IF Len(numeric_names) >= 3
    THEN LET sc == score_cols(numeric_names)
         IN << ChartRecommendation("radar", 80,
                   <<"radar">> \o (IF Len(sc) > 0 THEN Take(sc, 5)
                                   ELSE Take(numeric_names, 5)),
                   "alternative",
                   [metrics |-> IF Len(sc) > 0 THEN Take(sc, 6)
                                ELSE Take(numeric_names, 6),
                    group_by |-> AtOr(categorical_names, 1, None),
                    metric_options |-> numeric_names,
                    group_options |-> categorical_names]),
               ChartRecommendation("parallel", 75, <<"parallel">>, "alternative",
                   [axes |-> Take(numeric_names, 8),
                    color_by |-> AtOr(categorical_names, 1, None),
                    axis_options |-> numeric_names,
                    color_options |-> categorical_names]) >>
    ELSE <<>>

\* main.py 438-455
Density(numeric_names, categorical_names) ==
    IF Len(numeric_names) >= 1
    THEN << ChartRecommendation("density", 78, <<"density">>, "alternative",
                [x_axis |-> numeric_names[1],
                 group_by |-> AtOr(categorical_names, 1, None),
                 x_options |-> numeric_names,
                 group_options |-> categorical_names]) >>
    ELSE <<>>

\* main.py 457-473
Ridgeline(numeric_names, categorical_names) ==
    IF Len(categorical_names) >= 1 /\ Len(numeric_names) >= 1
    THEN << ChartRecommendation("ridgeline", 76,
                <<"ridgeline", categorical_names[1]>>, "alternative",
                [x_axis |-> numeric_names[1],
                 category |-> categorical_names[1],
                 x_options |-> numeric_names,
                 category_options |-> categorical_names]) >>
    ELSE <<>>

\* Treemap with the first categorical column as the sub-level too.
Treemap_SameSubcategory(numeric_names, categorical_names) ==
    IF Len(categorical_names) >= 1
    THEN << ChartRecommendation("treemap", 74, <<"treemap">>, "alternative",
                [category |-> categorical_names[1],
                 subcategory |-> IF Len(categorical_names) >= 2
                                 THEN categorical_names[1] ELSE None,
                 value |-> AtOr(numeric_names, 1, "count"),
                 category_options |-> categorical_names,
                 value_options |-> <<"count">> \o numeric_names]) >>
    ELSE <<>>

\* main.py 475-492
Treemap(numeric_names, categorical_names) ==
    IF Len(categorical_names) >= 1
    THEN << ChartRecommendation("treemap", 74, <<"treemap">>, "alternative",
                [category |-> categorical_names[1],
                 subcategory |-> IF Len(categorical_names) >= 2
                                 THEN categorical_names[2] ELSE None,
                 value |-> AtOr(numeric_names, 1, "count"),
                 category_options |-> categorical_names,
                 value_options |-> <<"count">> \o numeric_names]) >>
    ELSE <<>>

\* main.py 494-512
Sunburst(numeric_names, categorical_names) ==
    IF Len(categorical_names) >= 2
    THEN << ChartRecommendation("sunburst", 72,
                <<"sunburst", categorical_names[1], categorical_names[2]>>,
                "alternative",
                [level1 |-> categorical_names[1],
                 level2 |-> categorical_names[2],
                 level3 |-> IF Len(categorical_names) >= 3
                            THEN categorical_names[3] ELSE None,
                 value |-> AtOr(numeric_names, 1, "count"),
                 category_options |-> categorical_names,
                 value_options |-> <<"count">> \o numeric_names]) >>
    ELSE <<>>

\* main.py 514-530
Waterfall(numeric_names, categorical_names, date_names, has_time_series) ==
    IF Len(numeric_names) >= 1 /\ (has_time_series \/ Len(categorical_names) >= 1)
    THEN << ChartRecommendation("waterfall", 70, <<"waterfall">>, "alternative",
                [category |-> IF Len(categorical_names) > 0 THEN categorical_names[1]
                              ELSE IF Len(date_names) > 0 THEN date_names[1]
                              ELSE None,
                 value |-> numeric_names[1],
                 category_options |-> categorical_names \o date_names,
                 value_options |-> numeric_names]) >>
    ELSE <<>>

\* main.py 532-548
Funnel(numeric_names, categorical_names) ==
    IF Len(categorical_names) >= 1 /\ Len(numeric_names) >= 1
    THEN << ChartRecommendation("funnel", 68, <<"funnel">>, "alternative",
                [stage |-> categorical_names[1],
                 value |-> numeric_names[1],
                 stage_options |-> categorical_names,
                 value_options |-> numeric_names]) >>
    ELSE <<>>

\* main.py 553
ohlc_candidates(numeric_names) ==
    SelectSeq(numeric_names,
              LAMBDA c : \E x \in {"open", "high", "low", "close", "value"} :
                             Contains(x, c))

\* main.py 550-571
Candlestick(numeric_names, date_names, has_time_series) ==
    IF Len(numeric_names) >= 4 /\ has_time_series
    THEN IF Len(ohlc_candidates(numeric_names)) >= 4 \/ Len(numeric_names) >= 4
         THEN << ChartRecommendation("candlestick", 66, <<"candlestick">>, "alternative",
                     [date |-> AtOr(date_names, 1, None),
                      open |-> AtOr(numeric_names, 1, None),
                      high |-> AtOr(numeric_names, 2, None),
                      low |-> AtOr(numeric_names, 3, None),
                      close |-> AtOr(numeric_names, 4, None),
                      numeric_options |-> numeric_names]) >>
         ELSE <<>>
    ELSE <<>>

\* main.py 573-593
Scatter3d(numeric_names, categorical_names) ==
    IF Len(numeric_names) >= 3
    THEN << ChartRecommendation("scatter-3d", 64,
                <<"scatter-3d", numeric_names[1], numeric_names[2], numeric_names[3]>>,
                "alternative",
                [x_axis |-> numeric_names[1],
                 y_axis |-> numeric_names[2],
                 z_axis |-> numeric_names[3],
                 color_by |-> AtOr(categorical_names, 1, None),
                 x_options |-> numeric_names,
                 y_options |-> numeric_names,
                 z_options |-> numeric_names,
                 color_options |-> categorical_names]) >>
    ELSE <<>>

(***************************************************************************)
(* main.py 138-593: the recommendations in the order the rules add them.   *)
(***************************************************************************)
Rules(numeric_names, categorical_names, date_names, has_time_series) ==
    DistributionCharts(numeric_names, categorical_names)
    \o TimeSeriesCharts(numeric_names, categorical_names, date_names, has_time_series)
    \o CorrelationCharts(numeric_names, categorical_names)
    \o CategoricalCharts(numeric_names, categorical_names)
    \o CategoricalNumericCharts(numeric_names, categorical_names)
    \o AdvancedCharts(numeric_names, categorical_names)
    \o Density(numeric_names, categorical_names)
    \o Ridgeline(numeric_names, categorical_names)
    \o Treemap(numeric_names, categorical_names)
    \o Sunburst(numeric_names, categorical_names)
    \o Waterfall(numeric_names, categorical_names, date_names, has_time_series)
    \o Funnel(numeric_names, categorical_names)
    \o Candlestick(numeric_names, date_names, has_time_series)
    \o Scatter3d(numeric_names, categorical_names)

(***************************************************************************)
(* main.py 596: list.sort(key=score, reverse=True).  Python's sort is      *)
(* stable, also with reverse=True: an element goes behind every element    *)
(* whose score is at least its own.                                        *)
(***************************************************************************)
\* An unstable insertion: the element goes in front of its ties.
RECURSIVE InsertByScore_BeforeTies(_, _)
InsertByScore_BeforeTies(sorted, x) ==
    IF Len(sorted) = 0 THEN <<x>>
    ELSE IF Head(sorted).score > x.score
         THEN <<Head(sorted)>> \o InsertByScore_BeforeTies(Tail(sorted), x)
         ELSE <<x>> \o sorted

RECURSIVE InsertByScore(_, _)
InsertByScore(sorted, x) ==
    IF Len(sorted) = 0 THEN <<x>>
    ELSE IF Head(sorted).score >= x.score
         THEN <<Head(sorted)>> \o InsertByScore(Tail(sorted), x)
         ELSE <<x>> \o sorted

\* The sort left out.
SortByScore_Unsorted(recs) == recs

RECURSIVE SortByScore(_)
SortByScore(recs) ==
    IF Len(recs) = 0 THEN <<>>
    ELSE InsertByScore(SortByScore(SubSeq(recs, 1, Len(recs) - 1)), recs[Len(recs)])

\* main.py 599
MinRecommendations == 5

InfoRecommendation(n_numeric, n_categorical) ==
    ChartRecommendation("info", 0, <<"info", n_numeric, n_categorical>>,
        "info", [suggestion |-> "add-columns"])

\* The info entry never appended.
AddInfo_Never(recs, n_numeric, n_categorical) == recs

\* The info entry appended for 5 recommendations too.
AddInfo_UpToFive(recs, n_numeric, n_categorical) ==
    IF Len(recs) <= MinRecommendations
    THEN Append(recs, InfoRecommendation(n_numeric, n_categorical))
    ELSE recs

\* main.py 598-611
AddInfo(recs, n_numeric, n_categorical) ==
    IF Len(recs) < MinRecommendations
    THEN Append(recs, InfoRecommendation(n_numeric, n_categorical))
    ELSE recs

\* main.py 613
MaxRecommendations == 20

\* The cut to 20 entries left out.
Truncate_NoCap(recs) == recs

Truncate(recs) == Take(recs, MaxRecommendations)

\* main.py 110-136: the columns of one type, and their names.
ColsOfType(columns, type) == SelectSeq(columns, LAMBDA c : c.type = type)

\* main.py 131-613: what follows the check for an empty request.
RecommendForColumns(columns, has_time_series) ==
    LET numeric_names == get_col_names(ColsOfType(columns, "numeric"))
        categorical_names == get_col_names(ColsOfType(columns, "categorical"))
        date_names == get_col_names(ColsOfType(columns, "date"))
        n_numeric == Len(ColsOfType(columns, "numeric"))
        n_categorical == Len(ColsOfType(columns, "categorical"))
    IN Truncate(AddInfo(SortByScore(Rules(numeric_names, categorical_names,
                                          date_names, has_time_series)),
                        n_numeric, n_categorical))

\* The early return for an empty request left out.
recommend_charts_from_data_NoEmptyCheck(columns, has_time_series) ==
    RecommendForColumns(columns, has_time_series)

\* main.py 106-613
recommend_charts_from_data(columns, has_time_series) ==
    LET n_total == Len(columns)
    IN IF n_total = 0
       THEN << ErrorRecommendation >>
       ELSE RecommendForColumns(columns, has_time_series)

(***************************************************************************)
(* The state machine: a client assembles a request, posts it to            *)
(* /suggest-plots and reads the response.                                  *)
(***************************************************************************)
NoResponse == [recommended |-> <<>>, total_count |-> 0]

\* No file is uploaded.
NoFile == [ext |-> "none", parses |-> FALSE, n_rows |-> 0, table |-> <<>>]

NoAnalysis == [pending |-> TRUE]

NoUpload ==
    /\ file = NoFile
    /\ profiles = <<>>
    /\ analysis = NoAnalysis

Init ==
    /\ data \in [columns : {<<>>}, has_time_series : BOOLEAN]
    /\ response = NoResponse
    /\ pc = "request"
    /\ NoUpload

AllNumeric(columns) == \A i \in DOMAIN columns : columns[i].type = "numeric"

\* The client adds one column profile to the request.
AddColumn(name, type) ==
    /\ pc = "request"
    /\ \/ Len(data.columns) < MaxCols
       \/ /\ Len(data.columns) < MaxNumericOnly
          /\ type = "numeric"
          /\ AllNumeric(data.columns)
    /\ Len(data.columns) < Len(ColumnNames)
    /\ name \in ColumnNames[Len(data.columns) + 1]
    /\ data' = [data EXCEPT !.columns = Append(@, [name |-> name, type |-> type])]
    /\ UNCHANGED <<response, pc, uploadVars>>

(***************************************************************************)
(* main.py 110-112 and 132-136: recommend_charts_from_data reads c["type"]  *)
(* of every entry, and c["name"] of every numeric, categorical and date    *)
(* entry of a request that is not empty.  A dict without the key raises    *)
(* KeyError; the result is the missing key, or None when nothing is raised.*)
(***************************************************************************)
KeyErrorOf(columns) ==
    IF \E i \in DOMAIN columns : "type" \notin DOMAIN columns[i]
    THEN "type"
    ELSE IF \E i \in DOMAIN columns :
                /\ columns[i].type \in {"numeric", "categorical", "date"}
                /\ "name" \notin DOMAIN columns[i]
         THEN "name"
         ELSE None

\* main.py 696: HTTPException(status_code=500, detail=str(e))
HTTPException(status_code, detail) ==
    [status_code |-> status_code, detail |-> detail]

\* main.py 682-696: the handler returns the recommendations, or leaves by
\* raising HTTPException when recommend_charts_from_data raised.
suggest_plots ==
    /\ pc = "request"
    /\ IF KeyErrorOf(data.columns) = None
       THEN /\ LET recommendations ==
                   recommend_charts_from_data(data.columns, data.has_time_series)
               IN response' = [recommended |-> recommendations,
                               total_count |-> Len(recommendations)]
            /\ pc' = "responded"
       ELSE /\ response' = HTTPException(500, KeyErrorOf(data.columns))
            /\ pc' = "raised"
    /\ UNCHANGED <<data, uploadVars>>

\* The client starts the next request.
NewRequest ==
    /\ pc \in {"responded", "raised"}
    /\ data' \in [columns : {<<>>}, has_time_series : BOOLEAN]
    /\ response' = NoResponse
    /\ pc' = "request"
    /\ UNCHANGED uploadVars

Next ==
    \/ \E type \in ColumnTypes :
         \E name \in UNION {ColumnNames[i] : i \in DOMAIN ColumnNames} :
           AddColumn(name, type)
    \/ suggest_plots
    \/ NewRequest

Spec == Init /\ [][Next]_vars

(***************************************************************************)
(* Requests whose entries need not be column profiles: an entry may have a *)
(* type that is none of the four, or lack its type or its name.  Such a    *)
(* request has at most MaxEntries entries.                                 *)
(***************************************************************************)
MaxEntries == 3

ProfileEntries(position) ==
    {[name |-> n, type |-> t] :
         n \in ColumnNames[position], t \in ColumnTypes \cup {"unknown"}}
    \cup {[name |-> n] : n \in ColumnNames[position]}
    \cup {[type |-> t] : t \in {"numeric", "boolean"}}

\* The client adds one entry to the request.
AddEntry(entry) ==
    /\ pc = "request"
    /\ Len(data.columns) < MaxEntries
    /\ Len(data.columns) < Len(ColumnNames)
    /\ entry \in ProfileEntries(Len(data.columns) + 1)
    /\ data' = [data EXCEPT !.columns = Append(@, entry)]
    /\ UNCHANGED <<response, pc, uploadVars>>

NextRequests ==
    \/ \E position \in DOMAIN ColumnNames :
         \E entry \in ProfileEntries(position) : AddEntry(entry)
    \/ suggest_plots
    \/ NewRequest

SpecRequests == Init /\ [][NextRequests]_vars

TypeOK ==
    /\ pc \in {"request", "responded"}
    /\ data.has_time_series \in BOOLEAN
    /\ Len(data.columns) <= MaxNumericOnly + MaxCols
(***************************************************************************)
(* The column profiler: /upload-data (main.py 625-680) and analyze_column  *)
(* (main.py 66-104).                                                       *)
(*                                                                         *)
(* An uploaded file has an extension, content that pandas parses or not,   *)
(* and, when it parses, a table: a number of rows and columns.  A column   *)
(* of the table is described by what the profiler reads of it: its name,   *)
(* its pandas dtype, the number of distinct values (nunique), the number   *)
(* of missing values (na), and whether the pandas reducers work on its     *)
(* values (profilable) or raise.                                           *)
(*                                                                         *)
(* In a DataAnalysis, a ColumnInfo and a profile, a field that is None or  *)
(* not set is left out of the record; a statistic is the string of its     *)
(* Python type, or None.                                                   *)
(***************************************************************************)
MaxTableCols == 2

\* main.py 100
FrequencyTableLimit == 50

\* The rows of a table that is not empty: enough for a column to have more
\* distinct values than FrequencyTableLimit.
Rows == FrequencyTableLimit + 10

Extensions == {"csv", "xlsx", "xls", "txt"}

\* read_csv is called without parse_dates: it yields no datetime64 column.
Dtypes(ext) ==
    IF ext = "csv" THEN {"int64", "float64", "bool", "object"}
    ELSE {"int64", "float64", "bool", "datetime64", "object"}

TableNames == << {"order_date", "sales"}, {"Region"}, {"Sales_Year"}, {"t4"} >>

\* nunique and na of a column of n_rows rows: every value missing, two
\* distinct values with or without a missing one, or as many distinct
\* values as the limit of the frequency table, or one more.  An int64 or a
\* bool column has no missing value (pandas reads a column with a missing
\* value as float64 or object), and a bool column has two values at most.
ColumnShapes(n_rows, dtype) ==
    { sh \in [nunique : {0, 2, FrequencyTableLimit, FrequencyTableLimit + 1},
              na : {0, 1, n_rows}] :
        /\ sh.nunique + sh.na <= n_rows
        /\ (sh.nunique = 0) = (sh.na = n_rows)
        /\ sh.na = 1 => sh.nunique = 2
        /\ dtype \in {"int64", "bool"} => sh.na = 0
        /\ dtype = "bool" => sh.nunique <= 2 }

\* The columns a parsed file can have at a position.  The reducers can raise
\* on the values of an object column only, whose cells are any Python objects.
TableColumns(position, ext, n_rows) ==
    UNION { { [name |-> n, dtype |-> d, nunique |-> sh.nunique, na |-> sh.na,
               profilable |-> TRUE] :
                n \in TableNames[position], sh \in ColumnShapes(n_rows, d) } :
            d \in Dtypes(ext) }
    \cup { [name |-> n, dtype |-> "object", nunique |-> 2, na |-> 0,
            profilable |-> FALSE] :
                n \in IF n_rows > 0 THEN TableNames[position] ELSE {} }

(***************************************************************************)
(* main.py 77, 86, 92: the pandas dtype predicates.  is_numeric_dtype      *)
(* holds of the integer and float dtypes and of bool as well (pandas       *)
(* counts np.bool_ among the numeric dtypes).                              *)
(***************************************************************************)
is_numeric_dtype(dtype) == dtype \in {"int64", "float64", "bool"}

is_datetime64_any_dtype(dtype) == dtype = "datetime64"

is_bool_dtype(dtype) == dtype = "bool"

\* col.isna().all(): also true of a column without rows.
isna_all(col, n_rows) == col.na = n_rows

\* `f(col.stat()) if not col.isna().all() else default'
StatOr(col, n_rows, stat, default) ==
    IF ~isna_all(col, n_rows) THEN stat ELSE default

\* value_counts of a column: one key for each distinct value.
value_counts(col) == [keys |-> col.nunique]

\* The frequency table attached below the limit only, the limit excluded.
CategoricalProfile_BelowLimit(result, col) ==
    LET typed == result @@ [type |-> "categorical"]
    IN IF typed.unique_count < FrequencyTableLimit
       THEN typed @@ [value_counts |-> value_counts(col)]
       ELSE typed

\* main.py 98-102
CategoricalProfile(result, col) ==
    LET typed == result @@ [type |-> "categorical"]
    IN IF typed.unique_count <= FrequencyTableLimit
       THEN typed @@ [value_counts |-> value_counts(col)]
       ELSE typed

\* main.py 66-104
analyze_column(col, n_rows) ==
    LET result == [name |-> col.name,
                   unique_count |-> col.nunique,
                   na_count |-> col.na]
    IN IF is_numeric_dtype(col.dtype)
       THEN result @@
            [type |-> "numeric",
             summary |-> [min |-> StatOr(col, n_rows, "float", None),
                          max |-> StatOr(col, n_rows, "float", None),
                          mean |-> StatOr(col, n_rows, "float", None),
                          median |-> StatOr(col, n_rows, "float", None),
                          std |-> StatOr(col, n_rows, "float", None)]]
       ELSE IF is_datetime64_any_dtype(col.dtype)
       THEN result @@
            [type |-> "date",
             summary |-> [min_date |-> StatOr(col, n_rows, "str", None),
                          max_date |-> StatOr(col, n_rows, "str", None)]]
       ELSE IF is_bool_dtype(col.dtype)
       THEN result @@
            [type |-> "boolean",
             summary |-> [true_count |-> StatOr(col, n_rows, "int", "0"),
                          false_count |-> StatOr(col, n_rows, "int", "0")]]
       ELSE CategoricalProfile(result, col)

\* The columns that raise are skipped and the others are profiled.
AnalyzeColumns_SkipFailing(table, n_rows) ==
    LET good == SelectSeq(table, LAMBDA col : col.profilable)
    IN [raised |-> FALSE,
        columns |-> [i \in DOMAIN good |-> analyze_column(good[i], n_rows)]]

\* main.py 641: [analyze_column(df, col) for col in df.columns].  The list
\* is built whole, or the comprehension raises and no list is bound.
AnalyzeColumns(table, n_rows) ==
    IF \E i \in DOMAIN table : ~table[i].profilable
    THEN [raised |-> TRUE, columns |-> <<>>]
    ELSE [raised |-> FALSE,
          columns |-> [i \in DOMAIN table |-> analyze_column(table[i], n_rows)]]

\* main.py 644-648
has_time_series_of(columns) ==
    \E i \in DOMAIN columns :
        \/ columns[i].type = "date"
        \/ \E keyword \in {"date", "time", "year", "month"} :
               Contains(keyword, columns[i].name)

\* main.py 651-654
has_geographic_of(columns) ==
    \E i \in DOMAIN columns :
        \E keyword \in {"country", "city", "region", "location", "lat", "lon"} :
            Contains(keyword, columns[i].name)

\* main.py 38-43: a profile read as a ColumnInfo keeps the fields of the
\* model; value_counts is not one of them.
ColumnInfo(profile) ==
    [f \in DOMAIN profile \cap {"name", "type", "unique_count", "na_count",
                                "summary"} |-> profile[f]]

\* main.py 676-680: DataAnalysis(error=True, message=str(e))
ErrorAnalysis(message) == [error |-> TRUE, message |-> message]

\* main.py 628-680: what the handler returns, and the list bound at 641.
Upload(f) ==
    IF f.ext \notin {"csv", "xlsx", "xls"}
    THEN [profiles |-> <<>>, analysis |-> ErrorAnalysis("Unsupported file format")]
    ELSE IF ~f.parses
    THEN [profiles |-> <<>>, analysis |-> ErrorAnalysis("parse error")]
    ELSE LET analyzed == AnalyzeColumns(f.table, f.n_rows)
         IN IF analyzed.raised
            THEN [profiles |-> <<>>, analysis |-> ErrorAnalysis("profile error")]
            ELSE [profiles |-> analyzed.columns,
                  analysis |->
                      [error |-> FALSE,
                       filename |-> f.ext,
                       n_rows |-> f.n_rows,
                       n_cols |-> Len(f.table),
                       columns |-> [i \in DOMAIN analyzed.columns |->
                                       ColumnInfo(analyzed.columns[i])],
                       has_time_series |-> has_time_series_of(analyzed.columns),
                       has_geographic |-> has_geographic_of(analyzed.columns),
                       sample_data |-> Min(5, f.n_rows)]]

InitUpload ==
    /\ data = [columns |-> <<>>, has_time_series |-> FALSE]
    /\ response = NoResponse
    /\ pc = "upload"
    /\ file \in [ext : Extensions, parses : BOOLEAN, n_rows : {0, Rows},
                 table : {<<>>}]
    /\ profiles = <<>>
    /\ analysis = NoAnalysis

\* The next column of the table of the file.
AddTableColumn(col) ==
    /\ pc = "upload"
    /\ file.parses
    /\ file.ext \in {"csv", "xlsx", "xls"}
    /\ Len(file.table) < MaxTableCols
    /\ Len(file.table) < Len(TableNames)
    /\ col \in TableColumns(Len(file.table) + 1, file.ext, file.n_rows)
    /\ file' = [file EXCEPT !.table = Append(@, col)]
    /\ UNCHANGED <<requestVars, pc, profiles, analysis>>

\* main.py 625-680
upload_data ==
    /\ pc = "upload"
    /\ profiles' = Upload(file).profiles
    /\ analysis' = Upload(file).analysis
    /\ pc' = "analyzed"
    /\ UNCHANGED <<requestVars, file>>

\* The client uploads the next file.
NewUpload ==
    /\ pc = "analyzed"
    /\ file' \in [ext : Extensions, parses : BOOLEAN, n_rows : {0, Rows},
                  table : {<<>>}]
    /\ profiles' = <<>>
    /\ analysis' = NoAnalysis
    /\ pc' = "upload"
    /\ UNCHANGED requestVars

NextUpload ==
    \/ \E col \in TableColumns(Min(Len(file.table) + 1, Len(TableNames)),
                               file.ext, file.n_rows) : AddTableColumn(col)
    \/ upload_data
    \/ NewUpload

SpecUpload == InitUpload /\ [][NextUpload]_vars

(***************************************************************************)
(* What the properties below speak about: the request that was answered,   *)
(* the list that came back, and the columns of the request by type.        *)
(***************************************************************************)
Responded == pc = "responded"

Returned == response.recommended

NumericNames == get_col_names(ColsOfType(data.columns, "numeric"))

CategoricalNames == get_col_names(ColsOfType(data.columns, "categorical"))

DateNames == get_col_names(ColsOfType(data.columns, "date"))

CountOfType(type) ==
    Cardinality({i \in DOMAIN data.columns : data.columns[i].type = type})

TimeSeries == data.has_time_series \/ CountOfType("date") >= 1

\* What the rules emit for the request, before sorting.
Emitted == Rules(NumericNames, CategoricalNames, DateNames, data.has_time_series)

Types(recs) == {recs[i].type : i \in DOMAIN recs}

Entries(type) == {i \in DOMAIN Returned : Returned[i].type = type}

(***************************************************************************)
(* C1: the returned list has at most 20 entries, and at least 1 entry      *)
(* whenever the request has a column (also when all its columns are        *)
(* boolean).                                                               *)
(***************************************************************************)
C1_LengthBounds ==
    Responded =>
        /\ Len(Returned) <= 20
        /\ (Len(data.columns) > 0 => Len(Returned) >= 1)
        /\ response.total_count = Len(Returned)

\* The rules emitted more than 20 entries and the list was cut to 20.
C1_Witness ==
    /\ Responded
    /\ Len(Emitted) > 20
    /\ Len(Returned) = 20

(***************************************************************************)
(* C2: the returned list is sorted by score, non-increasing, over its      *)
(* whole length (the appended info entry included, and after the cut to    *)
(* 20).                                                                    *)
(***************************************************************************)
C2_SortedByScore ==
    Responded =>
        \A i, j \in DOMAIN Returned :
            i < j => Returned[i].score >= Returned[j].score

\* The rules emitted the entries out of score order, and more than 20.
C2_Witness ==
    /\ Responded
    /\ Len(Emitted) > 20
    /\ \E i, j \in DOMAIN Emitted : i < j /\ Emitted[i].score < Emitted[j].score

(***************************************************************************)
(* C3: entries of equal score.  The order of the rule table of the         *)
(* specification puts radar (correlation triple) before donut              *)
(* (categorical comparison); the code emits donut first.                   *)
(***************************************************************************)
TiesInCommon ==
    { <<"scatter", "bar">>, <<"area", "grouped-bar">>,
      <<"box", "horizontal-bar">>,
      <<"multi-line", "heatmap">>, <<"multi-line", "stacked-bar">>,
      <<"heatmap", "stacked-bar">>,
      <<"violin", "bubble">>, <<"violin", "boxplot-grouped">>,
      <<"bubble", "boxplot-grouped">> }

TiesInOrder(order) ==
    \A i, j \in DOMAIN Returned :
        (i < j /\ Returned[i].score = Returned[j].score)
            => <<Returned[i].type, Returned[j].type>> \in order

\* Where `recs' has the entry of each of its types.
PositionByType(recs) ==
    [t \in Types(recs) |-> CHOOSE k \in DOMAIN recs : recs[k].type = t]

\* C3 as claimed: every tied pair is in the order of the specification's
\* rule table, radar before donut.
C3_TiesInSpecTableOrder ==
    Responded => TiesInOrder(TiesInCommon \cup {<<"radar", "donut">>})

\* C3 amended: every tied pair is in the order in which the code emits the
\* two entries; that is the order of the rule table for every tied pair but
\* radar/donut, where donut comes first.
C3_TiesInEmissionOrder ==
    Responded =>
        /\ TiesInOrder(TiesInCommon \cup {<<"donut", "radar">>})
        /\ LET emittedAt == PositionByType(Emitted)
           IN \A i, j \in DOMAIN Returned :
                (i < j /\ Returned[i].score = Returned[j].score) =>
                    emittedAt[Returned[i].type] < emittedAt[Returned[j].type]

\* Both radar and donut were returned, with every other tied pair present.
C3_Witness ==
    /\ Responded
    /\ {"radar", "donut", "scatter", "bar", "area", "grouped-bar", "bubble",
        "boxplot-grouped", "heatmap", "stacked-bar"} \subseteq Types(Returned)

(***************************************************************************)
(* C4: a request without columns gets exactly one entry, of priority       *)
(* error and score 0, whatever has_time_series is: no rule fires and no    *)
(* info entry is appended.                                                 *)
(***************************************************************************)
C4_EmptyIsOneError ==
    (Responded /\ Len(data.columns) = 0) =>
        /\ Len(Returned) = 1
        /\ Returned[1].priority = "error"
        /\ Returned[1].type = "error"
        /\ Returned[1].score = 0

\* The empty request was answered with has_time_series set.
C4_Witness ==
    /\ Responded
    /\ Len(data.columns) = 0
    /\ data.has_time_series

(***************************************************************************)
(* C5: requests with 0 numeric, 0 categorical and 0 date columns.          *)
(***************************************************************************)
NoTypedColumns ==
    /\ CountOfType("numeric") = 0
    /\ CountOfType("categorical") = 0
    /\ CountOfType("date") = 0

\* C5 as claimed: such a request gets exactly 1 recommendation, of type
\* error and score 0.
C5_NoTypedColumnsIsOneError ==
    (Responded /\ NoTypedColumns) =>
        /\ Len(Returned) = 1
        /\ Returned[1].type = "error"
        /\ Returned[1].score = 0

\* C5 amended: such a request gets exactly 1 recommendation, of type error
\* and score 0, when it has no column at all; when it has columns (all of
\* them boolean) it gets no error entry: the list ends with the info entry
\* of score 0, which is alone unless has_time_series is set, and then
\* follows line, area and multi-line.
C5_NoTypedColumnsErrorOrInfo ==
    (Responded /\ NoTypedColumns) =>
        IF Len(data.columns) = 0
        THEN /\ Len(Returned) = 1
             /\ Returned[1].type = "error"
             /\ Returned[1].score = 0
        ELSE /\ "error" \notin Types(Returned)
             /\ [i \in DOMAIN Returned |-> Returned[i].type] =
                    IF data.has_time_series
                    THEN <<"line", "area", "multi-line", "info">>
                    ELSE <<"info">>
             /\ Returned[Len(Returned)].score = 0

\* A request of boolean columns only was answered.
C5_Witness ==
    /\ Responded
    /\ NoTypedColumns
    /\ Len(data.columns) >= 2
    /\ data.has_time_series

(***************************************************************************)
(* C6: for a request with columns, exactly one entry of priority info      *)
(* (score 0) is returned if and only if the rules emitted fewer than 5     *)
(* recommendations; it is then the last entry and its reason carries the   *)
(* numbers of numeric and of categorical columns.  With 5 or more, no info *)
(* entry is returned.                                                      *)
(***************************************************************************)
InfoEntries == {i \in DOMAIN Returned : Returned[i].priority = "info"}

C6_InfoIffFewerThanFive ==
    (Responded /\ Len(data.columns) > 0) =>
        IF Len(Emitted) < 5
        THEN /\ InfoEntries = {Len(Returned)}
             /\ Len(Returned) = Len(Emitted) + 1
             /\ Returned[Len(Returned)].score = 0
             /\ Returned[Len(Returned)].reason =
                    <<"info", CountOfType("numeric"), CountOfType("categorical")>>
        ELSE InfoEntries = {}

\* The info entry follows three recommendations and reports a numeric column.
C6_Witness ==
    /\ Responded
    /\ Len(Emitted) = 3
    /\ CountOfType("numeric") = 1
    /\ Returned[4].priority = "info"

(***************************************************************************)
(* C8: requests with at least 2 categorical and at least 1 numeric column. *)
(***************************************************************************)
HasSunburst ==
    \E i \in Entries("sunburst") :
        /\ Returned[i].variables.level1 = CategoricalNames[1]
        /\ Returned[i].variables.level2 = CategoricalNames[2]
        /\ Returned[i].variables.value = NumericNames[1]

HasTreemap ==
    \E i \in Entries("treemap") :
        /\ Returned[i].variables.category = CategoricalNames[1]
        /\ Returned[i].variables.subcategory = CategoricalNames[2]
        /\ Returned[i].variables.value = NumericNames[1]

TwoCategoricalOneNumeric ==
    CountOfType("categorical") >= 2 /\ CountOfType("numeric") >= 1

\* C8 as claimed: both the sunburst and the treemap entry are returned,
\* whatever has_time_series is and whatever other columns there are.
C8_SunburstAndTreemap ==
    (Responded /\ TwoCategoricalOneNumeric) => (HasSunburst /\ HasTreemap)

\* C8 amended: the treemap entry is always returned; the sunburst entry is
\* returned unless the request also has at least 3 numeric columns and a
\* time series (has_time_series, or a date column): 20 recommendations then
\* score above sunburst, and the cut to 20 entries drops it.
C8_TreemapAndSunburstUnlessCut ==
    (Responded /\ TwoCategoricalOneNumeric) =>
        /\ HasTreemap
        /\ IF CountOfType("numeric") >= 3 /\ TimeSeries
           THEN /\ Entries("sunburst") = {}
                /\ Entries("treemap") = {20}
           ELSE HasSunburst

\* The sunburst rule fired and the cut dropped its entry.
C8_Witness ==
    /\ Responded
    /\ TwoCategoricalOneNumeric
    /\ "sunburst" \in Types(Emitted)
    /\ Entries("sunburst") = {}
(***************************************************************************)
(* C7 (two calls with the same request return identical lists, no call     *)
(* depends on an earlier one, the request is left unchanged) compares two  *)
(* evaluations of recommend_charts_from_data, which is an operator here:   *)
(* it is not stated as a property of this state machine.                   *)
(***************************************************************************)

(***************************************************************************)
(* The roles of the variables of a recommendation that bind one column,    *)
(* in the order in which roles of one type take the columns of that type,  *)
(* and the type of column that a role of a chart requires (waterfall's     *)
(* category takes a date column when there is no categorical one).         *)
(***************************************************************************)
RoleOrder ==
    << "x_axis", "y_axis", "z_axis", "size", "category", "subcategory",
       "stage", "level1", "level2", "level3", "group_by", "stack_by",
       "color_by", "date", "open", "high", "low", "close", "value" >>

SingleRoles == {RoleOrder[k] : k \in DOMAIN RoleOrder}

RoleRank(role) == CHOOSE k \in DOMAIN RoleOrder : RoleOrder[k] = role

RoleTypes(chart, role) ==
    CASE role \in {"z_axis", "size", "value", "open", "high", "low", "close"}
             -> <<"numeric">>
      [] role \in {"subcategory", "stage", "level1", "level2", "level3",
                   "group_by", "stack_by", "color_by"}
             -> <<"categorical">>
      [] role = "date" -> <<"date">>
      [] role = "category" ->
             IF chart = "waterfall" THEN <<"categorical", "date">>
             ELSE <<"categorical">>
      [] role = "x_axis" ->
             IF chart \in {"line", "area", "multi-line"} THEN <<"date">>
             ELSE IF chart \in {"bar", "grouped-bar", "stacked-bar",
                                "boxplot-grouped"} THEN <<"categorical">>
             ELSE <<"numeric">>
      [] role = "y_axis" ->
             IF chart = "horizontal-bar" THEN <<"categorical">>
             ELSE <<"numeric">>

\* The names of the columns of a type, in the order of the request.
NamesOfType(type) ==
    LET at == {i \in DOMAIN data.columns : data.columns[i].type = type}
        RECURSIVE InOrder(_)
        InOrder(rest) ==
            IF rest = {} THEN <<>>
            ELSE LET first == CHOOSE i \in rest : \A j \in rest : i <= j
                 IN <<data.columns[first].name>> \o InOrder(rest \ {first})
    IN InOrder(at)

\* The columns a role chooses from: those of the first of its types that
\* the request has.
Candidates(types) ==
    LET present == SelectSeq(types, LAMBDA t : Len(NamesOfType(t)) > 0)
    IN IF Len(present) > 0 THEN NamesOfType(present[1]) ELSE <<>>

BoundToFirst(rec) ==
    LET roles == DOMAIN rec.variables \cap SingleRoles
    IN \A r \in roles :
         LET types == RoleTypes(rec.type, r)
             before == {q \in roles : /\ RoleRank(q) < RoleRank(r)
                                      /\ RoleTypes(rec.type, q) = types}
             k == Cardinality(before) + 1
             names == Candidates(types)
         IN IF Len(names) >= k
            THEN rec.variables[r] = names[k]
            ELSE /\ rec.variables[r] \in {None, "count"}
                 /\ rec.variables[r] = "count" => types = <<"numeric">>

(***************************************************************************)
(* C9: in every recommendation returned, a role that binds one column      *)
(* binds the first column, in the order of the request, of the type the    *)
(* role requires; a further role of the same type binds the second, third  *)
(* or fourth column of that type.  No role binds a later column.           *)
(***************************************************************************)
C9_RolesBindFirstColumns ==
    Responded => \A i \in DOMAIN Returned : BoundToFirst(Returned[i])

\* A bubble chart took three numeric columns of a request whose first column
\* is not numeric, and that has a fourth numeric column left unused.
C9_Witness ==
    /\ Responded
    /\ Entries("bubble") # {}
    /\ data.columns[1].type = "categorical"
    /\ CountOfType("numeric") >= 4

(***************************************************************************)
(* The option lists of the variables: the role that an option list serves  *)
(* and, through it, the type of its columns.                               *)
(***************************************************************************)
OptionRoles ==
    { "numeric_options", "options", "all_options", "metric_options",
      "axis_options", "x_options", "y_options", "z_options", "size_options",
      "color_options", "group_options", "stack_options", "stage_options",
      "category_options", "value_options" }

OptionTypes(chart, option) ==
    CASE option \in {"numeric_options", "options", "all_options",
                     "metric_options", "axis_options"} -> <<"numeric">>
      [] option = "x_options" -> RoleTypes(chart, "x_axis")
      [] option = "y_options" -> RoleTypes(chart, "y_axis")
      [] option = "z_options" -> RoleTypes(chart, "z_axis")
      [] option = "size_options" -> RoleTypes(chart, "size")
      [] option = "color_options" -> RoleTypes(chart, "color_by")
      [] option = "group_options" -> RoleTypes(chart, "group_by")
      [] option = "stack_options" -> RoleTypes(chart, "stack_by")
      [] option = "stage_options" -> RoleTypes(chart, "stage")
      [] option = "category_options" -> RoleTypes(chart, "category")
      [] option = "value_options" -> RoleTypes(chart, "value")

\* The option lists of the roles that fall back to "count".
CountOffered ==
    { <<"bar", "y_options">>, <<"horizontal-bar", "x_options">>,
      <<"pie", "value_options">>, <<"donut", "value_options">>,
      <<"treemap", "value_options">>, <<"sunburst", "value_options">> }

RECURSIVE NamesOfTypes(_)
NamesOfTypes(types) ==
    IF Len(types) = 0 THEN <<>>
    ELSE NamesOfType(Head(types)) \o NamesOfTypes(Tail(types))

IsPrefix(xs, ys) == Len(xs) <= Len(ys) /\ xs = SubSeq(ys, 1, Len(xs))

\* The chosen lists keep their caps.
ChosenListsCapped(rec) ==
    /\ "y_axes" \in DOMAIN rec.variables =>
           /\ IsPrefix(rec.variables.y_axes, NamesOfType("numeric"))
           /\ Len(rec.variables.y_axes) <= 3
    /\ "metrics" \in DOMAIN rec.variables => Len(rec.variables.metrics) <= 6
    /\ "axes" \in DOMAIN rec.variables =>
           /\ IsPrefix(rec.variables.axes, NamesOfType("numeric"))
           /\ Len(rec.variables.axes) <= 8
    /\ "columns" \in DOMAIN rec.variables =>
           /\ IsPrefix(rec.variables.columns, NamesOfType("numeric"))
           /\ Len(rec.variables.columns) <= 10

\* C10 as claimed: every option list is the complete list of the names of
\* the columns of the type of its role, in the order of the request.
C10_OptionsAreTheColumnsOfTheType ==
    Responded =>
        \A i \in DOMAIN Returned :
            \A o \in DOMAIN Returned[i].variables \cap OptionRoles :
                Returned[i].variables[o] =
                    NamesOfType(OptionTypes(Returned[i].type, o)[1])

\* C10 amended: every option list is the complete list of the names of the
\* columns of the type of its role, in the order of the request and never
\* capped, with two exceptions: the list of a role that falls back to
\* "count" (y_options of bar, x_options of horizontal-bar, value_options of
\* pie, donut, treemap and sunburst) starts with "count", before the numeric
\* names; and category_options of waterfall is the categorical names
\* followed by the date names.
C10_OptionsAreComplete ==
    Responded =>
        \A i \in DOMAIN Returned :
            /\ ChosenListsCapped(Returned[i])
            /\ \A o \in DOMAIN Returned[i].variables \cap OptionRoles :
                 Returned[i].variables[o] =
                     (IF <<Returned[i].type, o>> \in CountOffered
                      THEN <<"count">> ELSE <<>>)
                     \o NamesOfTypes(OptionTypes(Returned[i].type, o))

\* Every cap cut a chosen list (3 y_axes, 6 metrics, 8 axes, 10 columns) of a
\* request with more numeric columns than the largest cap.
C10_Witness ==
    /\ Responded
    /\ CountOfType("numeric") > 10
    /\ \E i \in Entries("multi-line") : Len(Returned[i].variables.y_axes) = 3
    /\ \E i \in Entries("radar") : Len(Returned[i].variables.metrics) = 6
    /\ \E i \in Entries("parallel") : Len(Returned[i].variables.axes) = 8
    /\ \E i \in Entries("heatmap") :
           /\ Len(Returned[i].variables.columns) = 10
           /\ Len(Returned[i].variables.all_options) > 10
(***************************************************************************)
(* C11: whenever the request has at least 1 date column and at least 1     *)
(* numeric column, the first entry returned is the line recommendation,    *)
(* with score 0.98, x_axis the first date column and y_axis the first      *)
(* numeric column, whatever has_time_series is and whatever other columns  *)
(* there are.                                                              *)
(***************************************************************************)
C11_LineRankedFirst ==
    (Responded /\ CountOfType("date") >= 1 /\ CountOfType("numeric") >= 1) =>
        /\ Returned[1].type = "line"
        /\ Returned[1].score = 98
        /\ Returned[1].variables.x_axis = NamesOfType("date")[1]
        /\ Returned[1].variables.y_axis = NamesOfType("numeric")[1]
        /\ Entries("line") = {1}

\* The line chart leads a list cut to 20, for a request without the flag
\* whose first date and first numeric column follow columns of other types.
C11_Witness ==
    /\ Responded
    /\ ~data.has_time_series
    /\ Len(Emitted) > 20
    /\ data.columns[1].type = "categorical"
    /\ CountOfType("date") >= 1
    /\ Returned[1].type = "line"

(***************************************************************************)
(* C16: the columns of the candlestick recommendation.                     *)
(***************************************************************************)
OhlcNames == ohlc_candidates(NamesOfType("numeric"))

\* C16 as claimed: open, high, low and close are bound to numeric columns
\* whose names contain open, high, low, close or value when there are at
\* least four such columns, and to the first four numeric columns otherwise.
C16_CandlestickPrefersOhlcNames ==
    Responded =>
        \A i \in Entries("candlestick") :
            LET v == Returned[i].variables
                bound == <<v.open, v.high, v.low, v.close>>
            IN IF Len(OhlcNames) >= 4
               THEN \A k \in 1..4 : \E j \in DOMAIN OhlcNames : bound[k] = OhlcNames[j]
               ELSE bound = SubSeq(NamesOfType("numeric"), 1, 4)
(***************************************************************************)
(* C12 and C13 are about requests with entries that are not column         *)
(* profiles (SpecRequests).                                                *)
(***************************************************************************)
Handled == pc \in {"responded", "raised"}

IsProfile(entry) ==
    /\ {"name", "type"} \subseteq DOMAIN entry
    /\ entry.type \in ColumnTypes

\* The request with every entry that is not a column profile replaced by a
\* column that is in none of the numeric, categorical and date buckets.
Skipping(columns) ==
    [i \in DOMAIN columns |->
        IF IsProfile(columns[i]) THEN columns[i]
        ELSE [name |-> "skipped", type |-> "boolean"]]

\* C12: recommend_charts_from_data never raises; an entry with an unknown
\* type, or without its type or its name, is skipped (it is counted in none
\* of the numeric, categorical and date buckets) and the call returns the
\* list of recommendations of the other entries.
C12_MalformedEntriesAreSkipped ==
    Handled =>
        /\ pc = "responded"
        /\ Returned = recommend_charts_from_data(Skipping(data.columns),
                                                 data.has_time_series)

\* C13: a failure of recommend_charts_from_data inside suggest_plots is
\* returned to the caller as the tagged error result (error = true and a
\* message), and never leaves the handler as a raised fault.
C13_FailureIsTaggedErrorResult ==
    (Handled /\ KeyErrorOf(data.columns) # None) =>
        /\ pc = "responded"
        /\ DOMAIN response = {"error", "message"}
        /\ response.error = TRUE

(***************************************************************************)
(* The column profiler.                                                    *)
(***************************************************************************)
\* upload_data has returned.
Analyzed == pc = "analyzed"

\* The uploaded file is of a supported type, parses, and every column of its
\* table can be profiled.
Profilable(f) ==
    /\ f.ext \in {"csv", "xlsx", "xls"}
    /\ f.parses
    /\ \A i \in DOMAIN f.table : f.table[i].profilable

\* C14: upload_data is all-or-nothing.  Its result is either a success
\* (error = false) with exactly one profile for every column of the table, in
\* the order of the columns, and with has_time_series and has_geographic, or
\* a tagged error (error = true and a message) with no profiles and no
\* signals.  An unsupported file type, or a column that fails to be
\* profiled, gives the tagged error: never a partial list, never a fault
\* that leaves the handler.
C14_UploadIsAllOrNothing ==
    Analyzed =>
        IF Profilable(file)
        THEN /\ ~analysis.error
             /\ "message" \notin DOMAIN analysis
             /\ {"columns", "has_time_series", "has_geographic"}
                    \subseteq DOMAIN analysis
             /\ Len(analysis.columns) = Len(file.table)
             /\ \A i \in DOMAIN file.table :
                    analysis.columns[i].name = file.table[i].name
             /\ analysis.has_time_series \in BOOLEAN
             /\ analysis.has_geographic \in BOOLEAN
        ELSE /\ analysis.error
             /\ DOMAIN analysis = {"error", "message"}
             /\ profiles = <<>>

\* A table whose first column is profiled and whose second column fails:
\* the result is the tagged error.
C14_Witness ==
    /\ Analyzed
    /\ Len(file.table) >= 2
    /\ file.table[1].profilable
    /\ ~file.table[2].profilable
    /\ analysis.error

\* C15: the profile analyze_column makes of a column carries a frequency
\* table (value_counts) if and only if the column is categorical and its
\* unique_count is at most 50: a categorical column with more than 50
\* distinct values carries none, and no numeric, date or boolean column
\* carries one.
C15_FrequencyTableIffSmallCategorical ==
    \A i \in DOMAIN profiles :
        /\ profiles[i].unique_count = file.table[i].nunique
        /\ ("value_counts" \in DOMAIN profiles[i])
               <=> (profiles[i].type = "categorical"
                        /\ profiles[i].unique_count <= 50)

\* Two categorical columns are profiled, one of 50 distinct values with its
\* frequency table and one of 51 without a table.
C15_Witness ==
    /\ Analyzed
    /\ \E i, j \in DOMAIN profiles :
           /\ profiles[i].type = "categorical"
           /\ profiles[i].unique_count = 50
           /\ "value_counts" \in DOMAIN profiles[i]
           /\ profiles[j].type = "categorical"
           /\ profiles[j].unique_count = 51
           /\ "value_counts" \notin DOMAIN profiles[j]

\* The keys of the summary of each semantic type (main.py 79-96); a
\* categorical profile has no summary.
SummaryKeys(type) ==
    CASE type = "numeric" -> {"min", "max", "mean", "median", "std"}
      [] type = "date" -> {"min_date", "max_date"}
      [] type = "boolean" -> {"true_count", "false_count"}
      [] OTHER -> {}

\* The keys of the summary a profile carries.
SummaryOf(profile) ==
    IF "summary" \in DOMAIN profile THEN DOMAIN profile.summary ELSE {}

\* C17: analyze_column gives each column exactly one semantic type out of
\* numeric, date, boolean and categorical, by the checks in the order
\* numeric, date/time, boolean, else categorical: a column of integers (0/1
\* included) is numeric, a column of true/false values is boolean with a
\* true_count/false_count summary, and the summary is the one of the
\* assigned type only.
C17_ClassifiedInFixedOrder ==
    \A i \in DOMAIN profiles :
        LET dtype == file.table[i].dtype
            profile == profiles[i]
        IN /\ profile.type \in {"numeric", "date", "boolean", "categorical"}
           /\ dtype \in {"int64", "float64"} => profile.type = "numeric"
           /\ dtype = "datetime64" => profile.type = "date"
           /\ dtype = "bool" => profile.type = "boolean"
           /\ dtype = "object" => profile.type = "categorical"
           /\ SummaryOf(profile) = SummaryKeys(profile.type)

====
